---------------------------- MODULE Spec2Model ----------------------------
(***************************************************************************)
(* Model of the system76-firmware daemon (src/src/main.rs): the firmware   *)
(* identity, the download pipeline, and the staging state machine of       *)
(* schedule / unschedule on the boot volume.                               *)
(*                                                                         *)
(* schedule and unschedule are modelled step by step (pc is the position   *)
(* inside the running handler), so that every intermediate point and every *)
(* crash point is a state of the model.  The dispatcher is single-threaded *)
(* (bus, main.rs:317-319): a handler starts only when pc = "idle", and    *)
(* its reply is sent (pc = "reply") before the next request is read.       *)
(***************************************************************************)
EXTENDS Naturals, Sequences, FiniteSets, TLC

(***************************************************************************)
(* Bounds                                                                  *)
(***************************************************************************)
\* staging directories left behind on /boot/efi by earlier calls
MaxLeaked == 1

(***************************************************************************)
(* The universe of blobs, digests and file names                           *)
(***************************************************************************)
NoBlob == "none"

\* "M3" is a manifest that names no updater payload
Manifests == {"M1", "M2", "M3"}
Archives  == {"U1", "U2", "F1", "F2"}
\* "X" is a blob that is neither a manifest nor a well-formed archive
Blobs == Manifests \cup Archives \cup {"X"}

\* the content hash the cache verifies (injective on the blobs)
Hash(b) ==
    CASE b = "M1" -> "dM1"
      [] b = "M2" -> "dM2"
      [] b = "M3" -> "dM3"
      [] b = "U1" -> "dU1"
      [] b = "U2" -> "dU2"
      [] b = "F1" -> "dF1"
      [] b = "F2" -> "dF2"
      [] b = "X"  -> "dX"
      [] OTHER    -> "d0"

\* "d0" is a digest of no blob
Digests == {Hash(b) : b \in Blobs} \cup {"d0"}

BiosModels == {"A", "B"}
EcProjects == {"P", "absent"}

\* util::sha256 of the embedded controller's project name
sha256(s) ==
    CASE s = "P"    -> "hP"
      [] s = "none" -> "hnone"
      [] OTHER      -> "h0"

\* format!("{}.tar.xz", name)
tar_xz(name) == name \o <<".tar.xz">>

updater_file == <<"system76-firmware-update", ".tar.xz">>

\* serde_json::from_slice::<Manifest>: only a manifest blob parses
IsManifest(b) == b \in Manifests

\* manifest.files of a parsed manifest
Files(b) ==
    CASE b = "M1" -> (updater_file :> "dU1")
                     @@ (tar_xz(<<"A", "_", "hP">>) :> "dF1")
      [] b = "M2" -> (updater_file :> "dU2")
                     @@ (tar_xz(<<"A", "_", "hP">>) :> "dF2")
                     @@ (tar_xz(<<"B", "_", "hnone">>) :> "dX")
      [] b = "M3" -> (tar_xz(<<"A", "_", "hP">>) :> "dF1")
      [] OTHER    -> <<>>

IsArchive(b) == b \in Archives

\* the tree a well-formed archive unpacks to
Tree(b) ==
    CASE b = "U1" -> "updater-1"
      [] b = "U2" -> "updater-2"
      [] b = "F1" -> "firmware-1"
      [] b = "F2" -> "firmware-2"
      [] OTHER    -> "partial"

Trees == {Tree(b) : b \in Archives}

\* util::extract_file(data, "./changelog.json"): F2 carries no changelog
HasChangelog(b) == b \in {"F1"}

(***************************************************************************)
(* Directories on the boot volume                                          *)
(***************************************************************************)
\* state: "absent", "present", or "remnant" (what a failed recursive
\* removal leaves behind); root and firmware: what was extracted there
AbsentDir == [state |-> "absent", root |-> "empty", firmware |-> "absent"]
EmptyDir  == [state |-> "present", root |-> "empty", firmware |-> "absent"]

Exists(dir) == dir.state # "absent"

VARIABLES
    host,       \* [bios_model, ec]: the machine the daemon runs on
    cache,      \* local object store of config::CACHE: digest -> blob
    fixedPath,  \* /boot/efi/system76-firmware-update (updater_dir)
    staging,    \* the temporary directory of the latest schedule (updater_tmp)
    leaked,     \* number of older temporary directories still on /boot/efi
    bootFlag,   \* boot::set_next_boot / unset_next_boot state
    pc,         \* position inside the handler being served
    call,       \* the handler being served, or served last
    result,     \* what the last handler returned
    pre         \* the state when the current (or last) handler was entered

vars == <<host, cache, fixedPath, staging, leaked, bootFlag, pc, call, result, pre>>


(***************************************************************************)
(* Pure helpers                                                            *)
(***************************************************************************)
\* ec::ec_or_none(true): the project name, or a placeholder when the
\* embedded controller cannot be read; it never fails
ec_or_none(h) == IF h.ec = "absent" THEN "none" ELSE h.ec

\* bios::bios(): the BIOS model, when the read succeeds
bios(h, biosOk) == [ok |-> biosOk, model |-> h.bios_model]

\* a variant of firmware_id that treats a host without a readable embedded
\* controller as an error
firmware_id_ec_required(h, biosOk) ==
    LET b == bios(h, biosOk) IN
    IF ~b.ok \/ h.ec = "absent"
    THEN [ok |-> FALSE, id |-> <<>>]
    ELSE [ok |-> TRUE, id |-> <<b.model, "_", sha256(h.ec)>>]

\* firmware_id(): format!("{}_{}", bios_model, sha256(ec_project))
firmware_id(h, biosOk) ==
    LET b == bios(h, biosOk) IN
    IF ~b.ok
    THEN [ok |-> FALSE, id |-> <<>>]
    ELSE [ok |-> TRUE, id |-> <<b.model, "_", sha256(ec_or_none(h))>>]

\* a variant of the cache that hands out whatever is stored or fetched
\* without hashing it
object_unverified(store, d, fetched) ==
    IF store[d] # NoBlob
    THEN [ok |-> TRUE, why |-> "", blob |-> store[d], store |-> store]
    ELSE IF fetched = NoBlob
    THEN [ok |-> FALSE, why |-> "object not found", blob |-> NoBlob, store |-> store]
    ELSE [ok |-> TRUE, why |-> "", blob |-> fetched,
          store |-> [store EXCEPT ![d] = fetched]]

\* download::Cache::object(digest): local storage first, then the remote
\* fetcher when one is configured; the bytes returned always hash to digest.
\* fetched is what the remote returns on a miss (NoBlob: no fetcher, or the
\* fetch failed).
object(store, d, fetched) ==
    IF store[d] # NoBlob
    THEN IF Hash(store[d]) = d
         THEN [ok |-> TRUE, why |-> "", blob |-> store[d], store |-> store]
         ELSE [ok |-> FALSE, why |-> "mismatch", blob |-> NoBlob, store |-> store]
    ELSE IF fetched = NoBlob
    THEN [ok |-> FALSE, why |-> "object not found", blob |-> NoBlob, store |-> store]
    ELSE IF Hash(fetched) # d
    THEN [ok |-> FALSE, why |-> "mismatch", blob |-> NoBlob, store |-> store]
    ELSE [ok |-> TRUE, why |-> "", blob |-> fetched,
          store |-> [store EXCEPT ![d] = fetched]]

\* other bytes than those of digest d: for an object of a release, the
\* object of the same kind of the other release
BadBytes(d) ==
    CASE d = "dM1" -> "M2"
      [] d = "dM2" -> "M1"
      [] d = "dU1" -> "U2"
      [] d = "dU2" -> "U1"
      [] d = "dF1" -> "F2"
      [] d = "dF2" -> "F1"
      [] d = "dX"  -> "U1"
      [] OTHER     -> "X"

\* cache.object(d) when the bytes the disk returns for d may have gone bad
\* (damaged): the cache reads them in place of what it stored
stored_object(store, d, fetched, damaged) ==
    IF damaged /\ store[d] # NoBlob
    THEN [object([store EXCEPT ![d] = BadBytes(d)], d, fetched)
             EXCEPT !.store = store]
    ELSE object(store, d, fetched)

\* what the remote of the Downloader answers for digest d
RemoteFetch(d, mode) ==
    CASE mode = "good" -> IF \E b \in Blobs : Hash(b) = d
                          THEN CHOOSE b \in Blobs : Hash(b) = d
                          ELSE NoBlob
      [] mode = "bad"  -> IF d = "dX" THEN "U1" ELSE "X"
      [] OTHER         -> NoBlob

\* how the retrieval of one object goes.  "good": the disk returns what was
\* stored and the remote answers with the object; "bad": the bytes obtained,
\* from the disk or else from the remote, are other bytes; "fail": the
\* remote does not answer
FetchModes == {"good", "bad", "fail"}

\* fs::remove_dir_all: all of the tree, or an error that leaves the tree
\* untouched ("fail") or partly removed ("partial")
RemoveOutcomes == {"ok", "fail", "partial"}

remove_dir_all(dir, outcome) ==
    CASE outcome = "ok"      -> [ok |-> TRUE, dir |-> AbsentDir]
      [] outcome = "partial" -> [ok |-> FALSE, dir |-> [dir EXCEPT !.state = "remnant"]]
      [] OTHER               -> [ok |-> FALSE, dir |-> dir]

\* a variant of remove_dir without the exists() test: removing a path that
\* does not exist is an error
remove_dir_nocheck(dir, outcome) ==
    IF Exists(dir)
    THEN remove_dir_all(dir, outcome)
    ELSE [ok |-> FALSE, dir |-> dir]

\* a variant of remove_dir that reports success whatever the removal did
remove_dir_swallow(dir, outcome) ==
    IF Exists(dir)
    THEN [ok |-> TRUE, dir |-> remove_dir_all(dir, outcome).dir]
    ELSE [ok |-> TRUE, dir |-> dir]

\* remove_dir(path): a no-op on a path that does not exist
remove_dir(dir, outcome) ==
    IF Exists(dir)
    THEN remove_dir_all(dir, outcome)
    ELSE [ok |-> TRUE, dir |-> dir]

\* a variant in which the guard was disarmed: nothing is removed
drop_tmp_leak(dir, outcome) == dir

\* the TempDir guard going out of scope on an early return: the directory
\* is removed, errors ignored
drop_tmp(dir, outcome) == remove_dir_all(dir, outcome).dir

\* a variant of the lookup that falls back to the updater payload of the
\* first release when the manifest does not name the file
lookup_default(store, digest, file, cacheOk, bad) ==
    LET m == stored_object(store, digest, NoBlob, bad = "manifest") IN
    IF ~cacheOk
    THEN [ok |-> FALSE, why |-> "cache", blob |-> NoBlob]
    ELSE IF ~m.ok
    THEN [ok |-> FALSE, why |-> m.why, blob |-> NoBlob]
    ELSE IF ~IsManifest(m.blob)
    THEN [ok |-> FALSE, why |-> "parse", blob |-> NoBlob]
    ELSE LET d == IF file \in DOMAIN Files(m.blob)
                  THEN Files(m.blob)[file] ELSE "dU1"
             o == stored_object(store, d, NoBlob, bad = "payload")
         IN IF ~o.ok
            THEN [ok |-> FALSE, why |-> o.why, blob |-> NoBlob]
            ELSE [ok |-> TRUE, why |-> "", blob |-> o.blob]

\* a variant of the lookup whose cache has the Downloader as its remote
\* fetcher, as the cache of download() has
lookup_fetching(store, digest, file, cacheOk, bad) ==
    LET m == stored_object(store, digest, RemoteFetch(digest, "good"),
                           bad = "manifest") IN
    IF ~cacheOk
    THEN [ok |-> FALSE, why |-> "cache", blob |-> NoBlob]
    ELSE IF ~m.ok
    THEN [ok |-> FALSE, why |-> m.why, blob |-> NoBlob]
    ELSE IF ~IsManifest(m.blob)
    THEN [ok |-> FALSE, why |-> "parse", blob |-> NoBlob]
    ELSE IF file \notin DOMAIN Files(m.blob)
    THEN [ok |-> FALSE, why |-> "not found", blob |-> NoBlob]
    ELSE LET d == Files(m.blob)[file]
             o == stored_object(m.store, d, RemoteFetch(d, "good"),
                                bad = "payload")
         IN IF ~o.ok
            THEN [ok |-> FALSE, why |-> o.why, blob |-> NoBlob]
            ELSE [ok |-> TRUE, why |-> "", blob |-> o.blob]

\* extract, lines 93-101: the manifest for digest and the blob it names for
\* file, both from a cache with no remote fetcher; bad: which of the two the
\* disk returns damaged ("none", "manifest", "payload")
lookup(store, digest, file, cacheOk, bad) ==
    LET m == stored_object(store, digest, NoBlob, bad = "manifest") IN
    IF ~cacheOk
    THEN [ok |-> FALSE, why |-> "cache", blob |-> NoBlob]
    ELSE IF ~m.ok
    THEN [ok |-> FALSE, why |-> m.why, blob |-> NoBlob]
    ELSE IF ~IsManifest(m.blob)
    THEN [ok |-> FALSE, why |-> "parse", blob |-> NoBlob]
    ELSE IF file \notin DOMAIN Files(m.blob)
    THEN [ok |-> FALSE, why |-> "not found", blob |-> NoBlob]
    ELSE LET o == stored_object(store, Files(m.blob)[file], NoBlob,
                                bad = "payload") IN
         IF ~o.ok
         THEN [ok |-> FALSE, why |-> o.why, blob |-> NoBlob]
         ELSE [ok |-> TRUE, why |-> "", blob |-> o.blob]

\* util::extract(&data, &path): the whole tree, or an error that leaves the
\* destination partly populated
unpack(blob, ioOk) ==
    IF IsArchive(blob) /\ ioOk
    THEN [ok |-> TRUE, tree |-> Tree(blob)]
    ELSE [ok |-> FALSE, tree |-> "partial"]

\* a variant of extract that drops the error of the unpacking
extract_unchecked(store, digest, file, cacheOk, ioOk, bad) ==
    LET l == lookup(store, digest, file, cacheOk, bad) IN
    IF ~l.ok
    THEN [ok |-> FALSE, why |-> l.why, tree |-> "empty"]
    ELSE [ok |-> TRUE, why |-> "", tree |-> unpack(l.blob, ioOk).tree]

\* extract(digest, file, path), lines 92-112: what ends up at path
extract(store, digest, file, cacheOk, ioOk, bad) ==
    LET l == lookup(store, digest, file, cacheOk, bad) IN
    IF ~l.ok
    THEN [ok |-> FALSE, why |-> l.why, tree |-> "empty"]
    ELSE LET u == unpack(l.blob, ioOk) IN
         IF u.ok
         THEN [ok |-> TRUE, why |-> "", tree |-> u.tree]
         ELSE [ok |-> FALSE, why |-> "failed to extract", tree |-> u.tree]

(***************************************************************************)
(* Initial state: nothing cached, nothing staged, the flag unset           *)
(***************************************************************************)
\* a reply: result.digest is what Download returns, result.id what FirmwareId
\* returns
Ok == [ok |-> TRUE, at |-> "", why |-> "", digest |-> "", id |-> <<>>]
Err(at, why) == [ok |-> FALSE, at |-> at, why |-> why, digest |-> "", id |-> <<>>]
NoResult == [ok |-> FALSE, at |-> "none", why |-> "", digest |-> "", id |-> <<>>]

\* call.efi: what the handler read at /sys/firmware/efi; call.tmp_created:
\* whether it created its temporary directory; call.cleanup: how the
\* best-effort removal of that directory ended ("none": not attempted);
\* call.bios_ok: whether bios::bios() could read the BIOS model; call.digest:
\* the digest Schedule was given, or the tail Download was told of;
\* call.bad: the object whose bytes reached the cache wrong
NoCall == [name |-> "none", digest |-> "", firmware_file |-> <<>>, efi |-> FALSE,
           tmp_created |-> FALSE, cleanup |-> "none", bios_ok |-> TRUE,
           bad |-> "none"]

Snapshot == [fixedPath |-> fixedPath, staging |-> staging, leaked |-> leaked,
             bootFlag |-> bootFlag, cache |-> cache]

\* no handler is being served: nothing to remember
NoSnapshot == [fixedPath |-> AbsentDir, staging |-> AbsentDir, leaked |-> 0,
               bootFlag |-> FALSE, cache |-> [d \in Digests |-> NoBlob]]

Init ==
    /\ host \in [bios_model : BiosModels, ec : EcProjects]
    /\ cache = [d \in Digests |-> NoBlob]
    /\ fixedPath = AbsentDir
    /\ staging = AbsentDir
    /\ leaked = 0
    /\ bootFlag = FALSE
    /\ pc = "idle"
    /\ call = NoCall
    /\ result = NoResult
    /\ pre = NoSnapshot

\* a handler returns r to the dispatcher
Return(r) == pc' = "reply" /\ result' = r

\* a best-effort removal may fail only while the model still counts
\* leftovers; what it leaves is a leftover either way, so the partly removed
\* outcome is not told apart from the untouched one
CleanupOutcomes == IF leaked < MaxLeaked THEN {"ok", "fail"} ELSE {"ok"}

(***************************************************************************)
(* schedule(digest), main.rs:114-155, one action per step                  *)
(***************************************************************************)
\* a variant of the entry of schedule that unsets the flag before it tests
\* the precondition
ScheduleCall_unset_first(digest, biosOk, efi) ==
    /\ pc = "idle"
    /\ pre' = Snapshot
    /\ LET fid == firmware_id(host, biosOk) IN
       /\ call' = [NoCall EXCEPT !.name = "schedule", !.digest = digest,
                   !.firmware_file = IF fid.ok THEN tar_xz(fid.id) ELSE <<>>,
                   !.efi = efi, !.bios_ok = biosOk]
       /\ IF ~fid.ok
          THEN Return(Err("firmware_id", "bios")) /\ UNCHANGED bootFlag
          ELSE IF ~efi
          THEN /\ Return(Err("precondition", "must be run using UEFI boot"))
               /\ bootFlag' = FALSE
          ELSE pc' = "remove_dir" /\ result' = NoResult /\ bootFlag' = FALSE
    /\ UNCHANGED <<host, cache, fixedPath, staging, leaked>>

\* lines 115-123: the identity, then the UEFI precondition; efi is whether
\* /sys/firmware/efi exists when the handler looks
ScheduleCall(digest, biosOk, efi) ==
    /\ pc = "idle"
    /\ pre' = Snapshot
    /\ LET fid == firmware_id(host, biosOk) IN
       /\ call' = [NoCall EXCEPT !.name = "schedule", !.digest = digest,
                   !.firmware_file = IF fid.ok THEN tar_xz(fid.id) ELSE <<>>,
                   !.efi = efi, !.bios_ok = biosOk]
       /\ IF ~fid.ok
          THEN Return(Err("firmware_id", "bios"))
          ELSE IF ~efi
          THEN Return(Err("precondition", "must be run using UEFI boot"))
          ELSE pc' = "unset_next_boot" /\ result' = NoResult
    /\ UNCHANGED <<host, cache, fixedPath, staging, leaked, bootFlag>>

\* a variant of the step that goes on without unsetting the flag
ScheduleUnset_late(ok) ==
    /\ pc = "unset_next_boot"
    /\ IF ok
       THEN pc' = "remove_dir" /\ UNCHANGED result
       ELSE Return(Err("unset_next_boot", "boot"))
    /\ UNCHANGED <<host, cache, fixedPath, staging, leaked, bootFlag, call, pre>>

\* a variant of the step that removes the directory at the fixed path
\* before it unsets the flag
ScheduleUnset_remove_first(ok) ==
    /\ pc = "unset_next_boot"
    /\ fixedPath' = AbsentDir
    /\ IF ok
       THEN bootFlag' = FALSE /\ pc' = "remove_dir" /\ UNCHANGED result
       ELSE UNCHANGED bootFlag /\ Return(Err("unset_next_boot", "boot"))
    /\ UNCHANGED <<host, cache, staging, leaked, call, pre>>

\* line 125: boot::unset_next_boot()?
ScheduleUnset(ok) ==
    /\ pc = "unset_next_boot"
    /\ IF ok
       THEN bootFlag' = FALSE /\ pc' = "remove_dir" /\ UNCHANGED result
       ELSE UNCHANGED bootFlag /\ Return(Err("unset_next_boot", "boot"))
    /\ UNCHANGED <<host, cache, fixedPath, staging, leaked, call, pre>>

\* a variant of the step that removes nothing
ScheduleRemove_skipped(outcome) ==
    /\ pc = "remove_dir"
    /\ pc' = "tempdir"
    /\ UNCHANGED <<host, cache, fixedPath, staging, leaked, bootFlag, call,
                   result, pre>>

\* a variant of the step that ignores the error of remove_dir
ScheduleRemove_ignore_error(outcome) ==
    /\ pc = "remove_dir"
    /\ fixedPath' = remove_dir(fixedPath, outcome).dir
    /\ pc' = "tempdir"
    /\ UNCHANGED <<host, cache, staging, leaked, bootFlag, call, result, pre>>

\* line 127: remove_dir(&updater_dir)?
ScheduleRemove(outcome) ==
    /\ pc = "remove_dir"
    /\ LET r == remove_dir(fixedPath, outcome) IN
       /\ fixedPath' = r.dir
       /\ IF r.ok
          THEN pc' = "tempdir" /\ UNCHANGED result
          ELSE Return(Err("remove_dir", "failed to remove"))
    /\ UNCHANGED <<host, cache, staging, leaked, bootFlag, call, pre>>

\* lines 129-134: TempDir::new_in("/boot/efi", ...); a directory an earlier
\* call left behind stays on the volume beside the new one
ScheduleTempDir(ok) ==
    /\ pc = "tempdir"
    /\ IF ok
       THEN /\ staging' = EmptyDir
            /\ leaked' = IF Exists(staging) THEN leaked + 1 ELSE leaked
            /\ call' = [call EXCEPT !.tmp_created = TRUE]
            /\ pc' = "extract_updater"
            /\ UNCHANGED result
       ELSE /\ Return(Err("tempdir", "failed to create temporary directory"))
            /\ UNCHANGED <<staging, leaked, call>>
    /\ UNCHANGED <<host, cache, fixedPath, bootFlag, pre>>

\* line 136: extract(digest, updater_file, updater_tmp.path())?
ScheduleExtractUpdater(cacheOk, ioOk, cleanup, bad) ==
    /\ pc = "extract_updater"
    /\ LET e == extract(cache, call.digest, updater_file, cacheOk, ioOk, bad)
           filled == [staging EXCEPT !.root = e.tree]
       IN IF e.ok
          THEN /\ staging' = filled
               /\ pc' = "extract_firmware"
               /\ UNCHANGED <<result, call>>
          ELSE /\ staging' = drop_tmp(filled, cleanup)
               /\ call' = [call EXCEPT !.cleanup = cleanup, !.bad = bad]
               /\ Return(Err("extract_updater", e.why))
    /\ UNCHANGED <<host, cache, fixedPath, leaked, bootFlag, pre>>

\* a variant of the step that puts the update it found back at the fixed
\* path when the extraction fails
ScheduleExtractFirmware_restore(cacheOk, ioOk, cleanup, bad) ==
    /\ pc = "extract_firmware"
    /\ LET e == extract(cache, call.digest, call.firmware_file, cacheOk, ioOk,
                        bad)
           filled == [staging EXCEPT !.firmware = IF e.tree = "empty"
                                                  THEN "absent" ELSE e.tree]
       IN IF e.ok
          THEN /\ staging' = filled
               /\ pc' = "rename"
               /\ UNCHANGED <<result, call, fixedPath>>
          ELSE /\ staging' = drop_tmp(filled, cleanup)
               /\ fixedPath' = pre.fixedPath
               /\ call' = [call EXCEPT !.cleanup = cleanup, !.bad = bad]
               /\ Return(Err("extract_firmware", e.why))
    /\ UNCHANGED <<host, cache, leaked, bootFlag, pre>>

\* line 138: extract(digest, &firmware_file, updater_tmp.path().join("firmware"))?
ScheduleExtractFirmware(cacheOk, ioOk, cleanup, bad) ==
    /\ pc = "extract_firmware"
    /\ LET e == extract(cache, call.digest, call.firmware_file, cacheOk, ioOk,
                        bad)
           filled == [staging EXCEPT !.firmware = IF e.tree = "empty"
                                                  THEN "absent" ELSE e.tree]
       IN IF e.ok
          THEN /\ staging' = filled
               /\ pc' = "rename"
               /\ UNCHANGED <<result, call>>
          ELSE /\ staging' = drop_tmp(filled, cleanup)
               /\ call' = [call EXCEPT !.cleanup = cleanup, !.bad = bad]
               /\ Return(Err("extract_firmware", e.why))
    /\ UNCHANGED <<host, cache, fixedPath, leaked, bootFlag, pre>>

\* lines 140-148: into_path, then fs::rename(tmp, updater_dir); on an error
\* the temporary directory is removed, best effort
ScheduleRename(ok, cleanup) ==
    /\ pc = "rename"
    /\ IF ok /\ ~Exists(fixedPath)
       THEN /\ fixedPath' = staging
            /\ staging' = AbsentDir
            /\ pc' = "set_next_boot"
            /\ UNCHANGED <<result, call>>
       ELSE /\ staging' = remove_dir(staging, cleanup).dir
            /\ call' = [call EXCEPT !.cleanup = cleanup]
            /\ Return(Err("rename", "failed to move"))
            /\ UNCHANGED fixedPath
    /\ UNCHANGED <<host, cache, leaked, bootFlag, pre>>

\* a variant of the step that ignores the error of set_next_boot
ScheduleSetNextBoot_ignore_error(ok) ==
    /\ pc = "set_next_boot"
    /\ bootFlag' = ok
    /\ Return(Ok)
    /\ UNCHANGED <<host, cache, fixedPath, staging, leaked, call, pre>>

\* lines 150-154: boot::set_next_boot()?; Ok(())
ScheduleSetNextBoot(ok) ==
    /\ pc = "set_next_boot"
    /\ IF ok
       THEN bootFlag' = TRUE /\ Return(Ok)
       ELSE UNCHANGED bootFlag /\ Return(Err("set_next_boot", "boot"))
    /\ UNCHANGED <<host, cache, fixedPath, staging, leaked, call, pre>>

(***************************************************************************)
(* unschedule(), main.rs:157-167                                           *)
(***************************************************************************)
\* a variant of unschedule that removes the directory although the unset
\* failed, and then returns the error of the unset
UnscheduleUnset_both(ok) ==
    /\ pc = "idle"
    /\ pre' = Snapshot
    /\ call' = [NoCall EXCEPT !.name = "unschedule"]
    /\ IF ok
       THEN /\ bootFlag' = FALSE
            /\ pc' = "u_remove_dir"
            /\ result' = NoResult
            /\ UNCHANGED fixedPath
       ELSE /\ UNCHANGED bootFlag
            /\ fixedPath' = remove_dir(fixedPath, "ok").dir
            /\ Return(Err("unset_next_boot", "boot"))
    /\ UNCHANGED <<host, cache, staging, leaked>>

\* a variant of the entry of unschedule that a second thread may run while
\* another handler is in progress
UnscheduleUnset_any_time(ok) ==
    /\ pc # "reply"
    /\ pre' = Snapshot
    /\ call' = [NoCall EXCEPT !.name = "unschedule"]
    /\ IF ok
       THEN bootFlag' = FALSE /\ pc' = "u_remove_dir" /\ result' = NoResult
       ELSE UNCHANGED bootFlag /\ Return(Err("unset_next_boot", "boot"))
    /\ UNCHANGED <<host, cache, fixedPath, staging, leaked>>

\* line 160: boot::unset_next_boot()?
UnscheduleUnset(ok) ==
    /\ pc = "idle"
    /\ pre' = Snapshot
    /\ call' = [NoCall EXCEPT !.name = "unschedule"]
    /\ IF ok
       THEN bootFlag' = FALSE /\ pc' = "u_remove_dir" /\ result' = NoResult
       ELSE UNCHANGED bootFlag /\ Return(Err("unset_next_boot", "boot"))
    /\ UNCHANGED <<host, cache, fixedPath, staging, leaked>>

\* lines 162-166: remove_dir(&updater_dir)?; Ok(())
UnscheduleRemove(outcome) ==
    /\ pc = "u_remove_dir"
    /\ LET r == remove_dir(fixedPath, outcome) IN
       /\ fixedPath' = r.dir
       /\ IF r.ok
          THEN Return(Ok)
          ELSE Return(Err("remove_dir", "failed to remove"))
    /\ UNCHANGED <<host, cache, staging, leaked, bootFlag, call, pre>>

(***************************************************************************)
(* download(), main.rs:54-90                                               *)
(***************************************************************************)
\* the digests the authenticated tail of the remote may name
Tails == {"dM1", "dM2", "dM3", "dX"}

DownloadOk(digest) == [Ok EXCEPT !.digest = digest]

\* the result of download() and the local store it leaves: every object is
\* retrieved through a cache whose remote fetcher is the Downloader
download(store, h, biosOk, dlOk, tail, cacheOk, m1, m2, m3) ==
    LET fid == firmware_id(h, biosOk)
        o1  == stored_object(store, tail, RemoteFetch(tail, m1), m1 = "bad")
    IN
    IF ~fid.ok THEN [result |-> Err("firmware_id", "bios"), store |-> store]
    ELSE IF ~dlOk THEN [result |-> Err("downloader", "new"), store |-> store]
    ELSE IF tail = "err" THEN [result |-> Err("tail", "tail"), store |-> store]
    ELSE IF ~cacheOk THEN [result |-> Err("cache", "cache"), store |-> store]
    ELSE IF ~o1.ok THEN [result |-> Err("manifest", o1.why), store |-> o1.store]
    ELSE IF ~IsManifest(o1.blob)
    THEN [result |-> Err("manifest", "parse"), store |-> o1.store]
    ELSE IF updater_file \notin DOMAIN Files(o1.blob)
    THEN [result |-> Err("updater", "not found"), store |-> o1.store]
    ELSE
    LET d2 == Files(o1.blob)[updater_file]
        o2 == stored_object(o1.store, d2, RemoteFetch(d2, m2), m2 = "bad")
        firmware_file == tar_xz(fid.id)
    IN
    IF ~o2.ok THEN [result |-> Err("updater", o2.why), store |-> o2.store]
    ELSE IF firmware_file \notin DOMAIN Files(o1.blob)
    THEN [result |-> Err("firmware", "not found"), store |-> o2.store]
    ELSE
    LET d3 == Files(o1.blob)[firmware_file]
        o3 == stored_object(o2.store, d3, RemoteFetch(d3, m3), m3 = "bad")
    IN
    IF ~o3.ok THEN [result |-> Err("firmware", o3.why), store |-> o3.store]
    ELSE IF ~(IsArchive(o3.blob) /\ HasChangelog(o3.blob))
    THEN [result |-> Err("changelog", "extract_file"), store |-> o3.store]
    ELSE [result |-> DownloadOk(tail), store |-> o3.store]

\* a variant of the handler whose cache keeps the manifest only
Download_manifest_only(biosOk, dlOk, tail, cacheOk, m1, m2, m3) ==
    /\ pc = "idle"
    /\ pre' = Snapshot
    /\ LET r == download(cache, host, biosOk, dlOk, tail, cacheOk, m1, m2, m3) IN
       /\ call' = [NoCall EXCEPT !.name = "download", !.bios_ok = biosOk,
                   !.bad = IF m1 = "bad" THEN "manifest"
                           ELSE IF m2 = "bad" THEN "updater"
                           ELSE IF m3 = "bad" THEN "firmware"
                           ELSE "none",
                   !.digest = IF r.result.at \in {"firmware_id", "downloader", "tail"}
                              THEN "" ELSE tail]
       /\ cache' = [d \in Digests |-> IF d = tail THEN r.store[d] ELSE cache[d]]
       /\ Return(r.result)
    /\ UNCHANGED <<host, fixedPath, staging, leaked, bootFlag>>

\* a variant of the handler that unsets the BootFlag once it has a new
\* release in the cache
Download_unsets_flag(biosOk, dlOk, tail, cacheOk, m1, m2, m3) ==
    /\ pc = "idle"
    /\ pre' = Snapshot
    /\ LET r == download(cache, host, biosOk, dlOk, tail, cacheOk, m1, m2, m3) IN
       /\ call' = [NoCall EXCEPT !.name = "download", !.bios_ok = biosOk,
                   !.bad = IF m1 = "bad" THEN "manifest"
                           ELSE IF m2 = "bad" THEN "updater"
                           ELSE IF m3 = "bad" THEN "firmware"
                           ELSE "none",
                   !.digest = IF r.result.at \in {"firmware_id", "downloader", "tail"}
                              THEN "" ELSE tail]
       /\ cache' = r.store
       /\ bootFlag' = IF r.result.ok THEN FALSE ELSE bootFlag
       /\ Return(r.result)
    /\ UNCHANGED <<host, fixedPath, staging, leaked>>

\* the Download handler, lines 263-275
Download(biosOk, dlOk, tail, cacheOk, m1, m2, m3) ==
    /\ pc = "idle"
    /\ pre' = Snapshot
    /\ LET r == download(cache, host, biosOk, dlOk, tail, cacheOk, m1, m2, m3) IN
       /\ call' = [NoCall EXCEPT !.name = "download", !.bios_ok = biosOk,
                   !.bad = IF m1 = "bad" THEN "manifest"
                           ELSE IF m2 = "bad" THEN "updater"
                           ELSE IF m3 = "bad" THEN "firmware"
                           ELSE "none",
                   !.digest = IF r.result.at \in {"firmware_id", "downloader", "tail"}
                              THEN "" ELSE tail]
       /\ cache' = r.store
       /\ Return(r.result)
    /\ UNCHANGED <<host, fixedPath, staging, leaked, bootFlag>>

(***************************************************************************)
(* The handlers that only read the host, bus(), main.rs:190-259            *)
(***************************************************************************)
\* a handler that changes nothing on the host and replies r
Reply(name, r) ==
    /\ pc = "idle"
    /\ pre' = Snapshot
    /\ call' = [NoCall EXCEPT !.name = name]
    /\ Return(r)
    /\ UNCHANGED <<host, cache, fixedPath, staging, leaked, bootFlag>>

\* lines 190-202: bios::bios(), its error as a method error
Bios(biosOk) ==
    Reply("bios", IF bios(host, biosOk).ok THEN Ok ELSE Err("bios", "bios"))

\* lines 207-220: m.msg.read1()? then ec::ec(primary), either error as a
\* method error
EmbeddedController(argOk, ecOk) ==
    Reply("ec", IF ~argOk THEN Err("args", "read1")
                ELSE IF ~ecOk THEN Err("ec", "ec")
                ELSE Ok)

\* lines 226-242: me::me(), its error as a method error
ManagementEngine(meOk) ==
    Reply("me", IF meOk THEN Ok ELSE Err("me", "me"))

\* lines 247-259: firmware_id(), the identifier as the reply or the error as
\* a method error
FirmwareId(biosOk) ==
    /\ pc = "idle"
    /\ pre' = Snapshot
    /\ call' = [NoCall EXCEPT !.name = "firmware_id", !.bios_ok = biosOk]
    /\ LET fid == firmware_id(host, biosOk) IN
       Return(IF fid.ok THEN [Ok EXCEPT !.id = fid.id]
              ELSE Err("firmware_id", "bios"))
    /\ UNCHANGED <<host, cache, fixedPath, staging, leaked, bootFlag>>

(***************************************************************************)
(* The serving loop, bus(), main.rs:313-319                                *)
(***************************************************************************)
\* a variant of the loop that ends the process when a handler returned an
\* error, as main() does for an error of bus()
SendReply_exit_on_error ==
    /\ pc = "reply"
    /\ pc' = IF result.ok THEN "idle" ELSE "exited"
    /\ call' = NoCall /\ result' = NoResult /\ pre' = NoSnapshot
    /\ UNCHANGED <<host, cache, fixedPath, staging, leaked, bootFlag>>

\* c.incoming(1000).next() has run the handler of one message: its reply
\* (the method return, or the method error) goes out and the loop waits for
\* the next message
SendReply ==
    /\ pc = "reply"
    /\ pc' = "idle"
    /\ call' = NoCall /\ result' = NoResult /\ pre' = NoSnapshot
    /\ UNCHANGED <<host, cache, fixedPath, staging, leaked, bootFlag>>

(***************************************************************************)
(* The daemon is killed inside a handler and started again                 *)
(***************************************************************************)
\* main.rs:322-330: the process ends where it stands; nothing is cleaned up
\* (no TempDir guard runs), an unpacking or a removal under way stops half
\* way.  The bound on leftovers applies as for a failed cleanup.
Crash ==
    /\ pc \notin {"idle", "reply"}
    /\ Exists(staging) => leaked < MaxLeaked
    /\ pc' = "idle"
    /\ call' = NoCall /\ result' = NoResult /\ pre' = NoSnapshot
    /\ \E half \in BOOLEAN :
         /\ staging' = IF half /\ pc = "extract_updater"
                       THEN [staging EXCEPT !.root = "partial"]
                       ELSE IF half /\ pc = "extract_firmware"
                       THEN [staging EXCEPT !.firmware = "partial"]
                       ELSE staging
         /\ fixedPath' = IF half /\ pc \in {"remove_dir", "u_remove_dir"}
                            /\ Exists(fixedPath)
                         THEN [fixedPath EXCEPT !.state = "remnant"]
                         ELSE fixedPath
    /\ UNCHANGED <<host, cache, leaked, bootFlag>>

(***************************************************************************)
(* The dispatcher: one request at a time (bus, main.rs:317-319)            *)
(***************************************************************************)
\* what the environment does to one handler step.  A handler returns at the
\* first failure it meets, so one fault per step covers every combination.
ExtractFaults == {"none", "cache", "io", "manifest", "payload"}
DownloadFaults == {"none", "bios", "downloader", "tail", "cache",
                   "bad1", "fail1", "bad2", "fail2", "bad3", "fail3"}

\* the digests a caller passes to Schedule: the manifests, a blob that is no
\* manifest, a digest of nothing
ScheduleDigests == {"dM1", "dM2", "dM3", "dX", "d0"}

FetchMode(fault, n) ==
    IF fault = "bad" \o n THEN "bad"
    ELSE IF fault = "fail" \o n THEN "fail"
    ELSE "good"

Next ==
    \/ \E d \in ScheduleDigests, biosOk \in BOOLEAN, efi \in BOOLEAN :
          ScheduleCall(d, biosOk, efi)
    \/ \E ok \in BOOLEAN : ScheduleUnset(ok)
    \/ \E o \in RemoveOutcomes : ScheduleRemove(o)
    \/ \E ok \in BOOLEAN : ScheduleTempDir(ok)
    \/ \E f \in ExtractFaults, c \in CleanupOutcomes :
          ScheduleExtractUpdater(f # "cache", f # "io", c,
                                 IF f \in {"manifest", "payload"} THEN f ELSE "none")
    \/ \E f \in ExtractFaults, c \in CleanupOutcomes :
          ScheduleExtractFirmware(f # "cache", f # "io", c,
                                  IF f \in {"manifest", "payload"} THEN f ELSE "none")
    \/ \E ok \in BOOLEAN, c \in CleanupOutcomes : ScheduleRename(ok, c)
    \/ \E ok \in BOOLEAN : ScheduleSetNextBoot(ok)
    \/ \E ok \in BOOLEAN : UnscheduleUnset(ok)
    \/ \E o \in RemoveOutcomes : UnscheduleRemove(o)
    \/ \E tail \in Tails, f \in DownloadFaults :
          Download(f # "bios", f # "downloader",
                   IF f = "tail" THEN "err" ELSE tail, f # "cache",
                   FetchMode(f, "1"), FetchMode(f, "2"), FetchMode(f, "3"))
    \/ \E biosOk \in BOOLEAN : Bios(biosOk)
    \/ \E argOk \in BOOLEAN, ecOk \in BOOLEAN : EmbeddedController(argOk, ecOk)
    \/ \E meOk \in BOOLEAN : ManagementEngine(meOk)
    \/ \E biosOk \in BOOLEAN : FirmwareId(biosOk)
    \/ SendReply
    \/ Crash

Spec == Init /\ [][Next]_vars

(***************************************************************************)
(* Properties                                                              *)
(***************************************************************************)
\* handler name has returned to the dispatcher
Returned(name) ==
    pc = "reply" /\ call.name = name /\ result.at # "none"

\* both payloads completely extracted
IsFull(dir) ==
    dir.state = "present" /\ dir.root \in Trees /\ dir.firmware \in Trees

\* something of an unfinished extraction is in the directory
PartiallyExtracted(dir) ==
    Exists(dir) /\ (dir.root \notin Trees \/ dir.firmware \notin Trees)

Unstaged == ~Exists(fixedPath) /\ ~bootFlag
Armed == IsFull(fixedPath) /\ bootFlag

\* the name of the firmware payload of this host
HostFirmwareFile == tar_xz(firmware_id(host, TRUE).id)

\* the blob a digest addresses, whatever the local store holds
BlobOf(d) == IF \E b \in Blobs : Hash(b) = d
             THEN CHOOSE b \in Blobs : Hash(b) = d
             ELSE NoBlob

\* the manifest the digest of the call addresses names file
Names(file) ==
    BlobOf(call.digest) \in Manifests /\ file \in DOMAIN Files(BlobOf(call.digest))

\* the tree of the payload the manifest of the scheduled digest names for file
PayloadTree(file) ==
    IF Names(file)
    THEN LET b == BlobOf(Files(BlobOf(call.digest))[file]) IN
         IF b \in Archives THEN Tree(b) ELSE "missing"
    ELSE "missing"

\* C1: whenever schedule(digest) returns success, the fixed path holds the
\* complete updater payload, firmware/ holds the complete firmware payload of
\* the host's identity, and the BootFlag is set.
C1_ScheduleSuccessArmed ==
    (Returned("schedule") /\ result.ok) =>
        /\ bootFlag
        /\ fixedPath = [state |-> "present",
                        root |-> PayloadTree(updater_file),
                        firmware |-> PayloadTree(HostFirmwareFile)]

\* C1 witness: a schedule has returned success
C1_Witness == Returned("schedule") /\ result.ok

\* C2: in every state, inside the handlers too, the BootFlag is set only if a
\* fully populated ArmedUpdate is at the fixed path; schedule holds the flag
\* unset from its first filesystem mutation until after the rename.
C2_FlagOnlyIfArmed ==
    /\ bootFlag => IsFull(fixedPath)
    /\ pc \in {"remove_dir", "tempdir", "extract_updater", "extract_firmware",
               "rename", "set_next_boot", "u_remove_dir"} => ~bootFlag

\* C2 witness: a schedule that found an armed update is in the middle of its
\* staging
C2_Witness == pc = "extract_firmware" /\ pre.bootFlag /\ IsFull(pre.fixedPath)

\* C3: the directory at the fixed path comes into being only by the rename
\* of a staging directory holding both payloads completely, and nothing
\* partially extracted is ever at the fixed path.
C3_OnlyByRenameOfFull ==
    [][ /\ (~Exists(fixedPath) /\ Exists(fixedPath'))
             => (pc = "rename" /\ IsFull(staging) /\ fixedPath' = staging)
        /\ ~PartiallyExtracted(fixedPath') ]_vars

\* C3 witness: the rename has just put the directory in place
C3_Witness == pc = "set_next_boot" /\ IsFull(fixedPath)

\* C4: when schedule returns because the extraction of the firmware payload
\* failed, the fixed path does not exist and the BootFlag is unset.
C4_FirmwareFailureUnstaged ==
    (Returned("schedule") /\ result.at = "extract_firmware") => Unstaged

\* C4 witness: the firmware extraction failed in a schedule that had found an
\* armed update
C4_Witness ==
    /\ Returned("schedule") /\ result.at = "extract_firmware"
    /\ pre.bootFlag /\ IsFull(pre.fixedPath)

\* schedule went past the identity and the precondition
PassedPrecondition == result.at \notin {"firmware_id", "precondition"}

\* C5, as claimed: whenever schedule returns an error after passing its
\* precondition, the fixed path is absent and the BootFlag is unset (the
\* system is back in Unstaged), also when the final set-BootFlag step fails.
C5_AnyFailureUnstaged ==
    (Returned("schedule") /\ ~result.ok /\ PassedPrecondition) => Unstaged

\* C5, amended: a schedule that fails between the creation of its staging
\* directory and the rename leaves the fixed path absent and the flag unset;
\* one that fails at the final set-BootFlag step leaves the fully staged
\* directory at the fixed path with the flag unset; one that fails removing
\* the old directory leaves a directory there with the flag unset; one that
\* fails unsetting the flag leaves the fixed path as it was.
C5_FailureStates ==
    (Returned("schedule") /\ ~result.ok /\ PassedPrecondition) =>
        /\ result.at \in {"unset_next_boot", "remove_dir", "tempdir",
                          "extract_updater", "extract_firmware", "rename",
                          "set_next_boot"}
        /\ result.at \in {"tempdir", "extract_updater", "extract_firmware",
                          "rename"} => Unstaged
        /\ result.at = "set_next_boot" => (IsFull(fixedPath) /\ ~bootFlag)
        /\ result.at = "remove_dir" => (Exists(fixedPath) /\ ~bootFlag)
        /\ result.at = "unset_next_boot" => fixedPath = pre.fixedPath

\* C5 witness: schedule returned the error of the final set-BootFlag step
C5_Witness ==
    Returned("schedule") /\ ~result.ok /\ result.at = "set_next_boot"

\* C6, as claimed: when /sys/firmware/efi is absent, schedule fails with the
\* precondition error and leaves the fixed path, the staging area, the
\* BootFlag and the cache as they were.
C6_PreconditionErrorNoMutation ==
    (Returned("schedule") /\ ~call.efi) =>
        (~result.ok /\ result.at = "precondition" /\ Snapshot = pre)

\* C6, amended: when /sys/firmware/efi is absent, schedule fails, with the
\* precondition error if the firmware identity was resolved and with the
\* identity error otherwise, and leaves the fixed path, the staging area, the
\* BootFlag and the cache as they were.
C6_FailsWithoutMutation ==
    (Returned("schedule") /\ ~call.efi) =>
        /\ ~result.ok
        /\ result.at = IF call.firmware_file = <<>>
                       THEN "firmware_id" ELSE "precondition"
        /\ Snapshot = pre

\* C6 witness: the precondition error was returned while an update was armed
C6_Witness ==
    /\ Returned("schedule") /\ ~call.efi /\ result.at = "precondition"
    /\ Armed

\* C7, as claimed: if unsetting the BootFlag fails in unschedule, the
\* directory at the fixed path is removed all the same.
C7_RemovedAlthoughUnsetFailed ==
    (Returned("unschedule") /\ result.at = "unset_next_boot")
        => ~Exists(fixedPath)

\* C7, amended: unschedule runs its two steps in order and returns at the
\* first error: if unsetting the BootFlag fails, that error is returned and
\* the directory at the fixed path is left as it was; the removal is only
\* attempted with the flag unset.
C7_UnsetFailureReturnsAtOnce ==
    /\ (Returned("unschedule") /\ result.at = "unset_next_boot") =>
           (~result.ok /\ fixedPath = pre.fixedPath)
    /\ pc = "u_remove_dir" => ~bootFlag

\* C7 witness: the unset failed in an unschedule of an armed update
C7_Witness ==
    Returned("unschedule") /\ result.at = "unset_next_boot" /\ Armed

\* nothing was staged when the handler was entered
NothingStagedBefore == ~Exists(pre.fixedPath) /\ ~pre.bootFlag

\* C8, as claimed: unschedule called when nothing is staged returns success
\* and leaves the fixed path absent and the BootFlag unset.
C8_NothingStagedSucceeds ==
    (Returned("unschedule") /\ NothingStagedBefore) => (result.ok /\ Unstaged)

\* C8, amended: unschedule called when nothing is staged changes nothing (the
\* fixed path stays absent, the BootFlag unset, so any number of calls in a
\* row leave the state of one call) and returns success unless the unset of
\* the BootFlag itself reports an error; the absent directory is no error.
C8_NothingStagedNoOp ==
    (Returned("unschedule") /\ NothingStagedBefore) =>
        /\ Unstaged
        /\ Snapshot = pre
        /\ result.ok \/ result.at = "unset_next_boot"

\* C8 witness: an unschedule with nothing staged returned success
C8_Witness == Returned("unschedule") /\ NothingStagedBefore /\ result.ok

\* C9: from every reachable state, an unschedule that returns success leaves
\* the fixed path absent and the BootFlag unset.
C9_UnscheduleRecovers ==
    (Returned("unschedule") /\ result.ok) => Unstaged

\* C9 witness: a successful unschedule that found a fully staged directory
\* with the flag unset (what a schedule failing at set-BootFlag leaves)
C9_Witness ==
    /\ Returned("unschedule") /\ result.ok
    /\ IsFull(pre.fixedPath) /\ ~pre.bootFlag

\* C10, as claimed: when schedule returns an error after it created its
\* staging directory, that directory is gone.
C10_NoStagingLeftOnError ==
    (Returned("schedule") /\ ~result.ok /\ call.tmp_created)
        => ~Exists(staging)

\* C10, amended: on every error return of schedule after it created its
\* staging directory, the removal of that directory is attempted, and the
\* directory is gone unless that best-effort removal itself fails.
C10_StagingRemovedBestEffort ==
    (Returned("schedule") /\ ~result.ok /\ call.tmp_created) =>
        /\ result.at \in {"extract_updater", "extract_firmware", "rename"}
               => call.cleanup # "none"
        /\ call.cleanup # "fail" => ~Exists(staging)

\* C10 witness: the rename failed and the staging directory was removed
C10_Witness ==
    /\ Returned("schedule") /\ result.at = "rename" /\ call.tmp_created
    /\ call.cleanup = "ok" /\ ~Exists(staging)

\* the file name looked up at the site where the last handler stopped
SiteFile ==
    CASE result.at \in {"extract_updater", "updater"} -> updater_file
      [] result.at = "extract_firmware" -> call.firmware_file
      [] OTHER -> HostFirmwareFile

\* the manifest of the call was resolved and does not name file
Absent(file) ==
    /\ call.digest \in Digests
    /\ cache[call.digest] \in Manifests
    /\ file \notin DOMAIN Files(cache[call.digest])

\* C11: at each of the three lookup sites (updater and firmware payload in
\* download, any file in extract) a file name the manifest does not name
\* makes the operation fail with "<name> not found"; no default digest is
\* substituted, so no operation succeeds for such a name, and nothing is
\* retrieved into the cache or extracted into the staging directory for it.
C11_AbsentNameNotFound ==
    /\ (Returned("schedule") /\ result.ok)
          => Names(updater_file) /\ Names(call.firmware_file)
    /\ (Returned("download") /\ result.ok)
          => Names(updater_file) /\ Names(HostFirmwareFile)
    /\ (Returned("schedule") /\ Absent(SiteFile)
            /\ result.at \in {"extract_updater", "extract_firmware"})
          => \/ result.why \in {"not found", "cache"}
             \/ result.why = "mismatch" /\ call.bad = "manifest"
    /\ (Returned("download") /\ Absent(SiteFile)
            /\ result.at \in {"updater", "firmware"})
          => result.why = "not found"
    /\ (Returned("schedule") /\ result.why = "not found")
          => /\ result.at \in {"extract_updater", "extract_firmware"}
             /\ Absent(SiteFile)
             /\ cache = pre.cache
             /\ ~Exists(fixedPath)
             /\ Exists(staging) =>
                   IF result.at = "extract_updater"
                   THEN staging.root = "empty"
                   ELSE staging.firmware = "absent"
    /\ (Returned("download") /\ result.why = "not found")
          => /\ result.at \in {"updater", "firmware"}
             /\ Absent(SiteFile)
             /\ \A d \in Digests :
                   cache[d] # pre.cache[d] =>
                      \/ d = call.digest
                      \/ /\ result.at = "firmware"
                         /\ d = Files(cache[call.digest])[updater_file]

\* C11 witness: a schedule asked for the updater payload of a manifest that
\* names none; the staging directory its failed cleanup left holds nothing
C11_Witness ==
    /\ Returned("schedule") /\ result.why = "not found"
    /\ result.at = "extract_updater" /\ Exists(staging)

\* the sites of download() that come before the first object is retrieved
EarlySites == {"firmware_id", "downloader", "tail", "cache"}

\* C12: whatever download and schedule obtain through the cache for a digest
\* hashes to that digest: what is staged is the tree of the blobs the
\* digests address, download persists verified bytes only, and when the
\* bytes of an object come out wrong (the stored ones from the disk, or the
\* fetched ones from the remote) the operation aborts with the mismatch
\* instead of parsing, extracting or staging them.
C12_OnlyVerifiedBytes ==
    /\ pc \in {"extract_firmware", "rename"}
          => staging.root = PayloadTree(updater_file)
    /\ pc = "rename" => staging.firmware = PayloadTree(call.firmware_file)
    /\ (Returned("schedule") /\ result.ok)
          => /\ fixedPath.root = PayloadTree(updater_file)
             /\ fixedPath.firmware = PayloadTree(call.firmware_file)
    /\ Returned("download")
          => \A d \in Digests : cache[d] # pre.cache[d] => Hash(cache[d]) = d
    /\ (Returned("schedule") /\ call.bad = "manifest"
            /\ pre.cache[call.digest] # NoBlob)
          => result.why = "mismatch" /\ ~Exists(fixedPath)
    /\ (Returned("schedule") /\ call.bad = "payload" /\ Names(SiteFile)
            /\ pre.cache[call.digest] # NoBlob
            /\ pre.cache[Files(BlobOf(call.digest))[SiteFile]] # NoBlob)
          => result.why = "mismatch" /\ ~Exists(fixedPath)
    /\ (Returned("download") /\ call.bad = "manifest"
            /\ result.at \notin EarlySites)
          => result.at = "manifest" /\ result.why = "mismatch"
    /\ (Returned("download") /\ call.bad = "updater"
            /\ result.at \notin EarlySites /\ Names(updater_file))
          => result.at = "updater" /\ result.why = "mismatch"
    /\ (Returned("download") /\ call.bad = "firmware"
            /\ result.at \notin EarlySites /\ Names(updater_file)
            /\ Names(HostFirmwareFile))
          => result.at = "firmware" /\ result.why = "mismatch"

\* C12 witness: the disk returned other bytes for the stored firmware
\* payload, after the updater payload had been extracted
C12_Witness ==
    /\ Returned("schedule") /\ result.at = "extract_firmware"
    /\ call.bad = "payload" /\ result.why = "mismatch"

\* the serving loop waits for a message and each of the seven methods can
\* be dispatched
Serving ==
    /\ pc = "idle"
    /\ ENABLED (\E biosOk \in BOOLEAN : Bios(biosOk))
    /\ ENABLED (\E argOk \in BOOLEAN, ecOk \in BOOLEAN :
                   EmbeddedController(argOk, ecOk))
    /\ ENABLED (\E meOk \in BOOLEAN : ManagementEngine(meOk))
    /\ ENABLED (\E biosOk \in BOOLEAN : FirmwareId(biosOk))
    /\ ENABLED (\E tail \in Tails :
                   Download(TRUE, TRUE, tail, TRUE, "good", "good", "good"))
    /\ ENABLED (\E d \in ScheduleDigests : ScheduleCall(d, TRUE, TRUE))
    /\ ENABLED (\E ok \in BOOLEAN : UnscheduleUnset(ok))

\* the positions inside the handlers of Schedule and Unschedule
HandlerPcs == {"unset_next_boot", "remove_dir", "tempdir", "extract_updater",
               "extract_firmware", "rename", "set_next_boot", "u_remove_dir"}

\* C13: a handler that fails hands its error to the dispatcher as the reply
\* to its caller (a method error), the reply goes out, and the daemon is
\* back in its serving loop, where every method can be dispatched again:
\* outside a handler the daemon is either replying or serving, and no reply,
\* error or not, ends the loop.
C13_DaemonKeepsServing ==
    /\ [](pc \notin HandlerPcs => (pc = "reply" \/ Serving))
    /\ [](pc = "reply" =>
            /\ call.name \in {"bios", "ec", "me", "firmware_id", "download",
                               "schedule", "unschedule"}
            /\ result.at # "none"
            /\ result.ok \/ result.why # "")
    /\ [][pc = "reply" => pc' = "idle"]_vars
    /\ [][(pc \in HandlerPcs) => (pc' \in HandlerPcs \/ pc' \in {"reply", "idle"})]_vars

\* C13 witness: the error of a failed Unschedule is about to go out as the
\* reply, after which the loop serves again
C13_Witness ==
    /\ pc = "reply" /\ call.name = "unschedule" /\ ~result.ok
    /\ ENABLED SendReply

\* C14: requests are served one at a time.  A request is taken only by the
\* waiting loop; from then until its reply has gone out every step belongs to
\* that same request (or the process is killed), so the steps of two
\* requests never interleave, and the fixed path and the BootFlag are
\* changed only by the one Schedule or Unschedule in progress.
C14_OneAtATime ==
    /\ [][(pc # "idle") =>
            \/ call' = NoCall /\ pc' = "idle"
            \/ /\ call'.name = call.name /\ call'.digest = call.digest
               /\ pre' = pre /\ pc' # "idle"]_vars
    /\ [][(pc # "idle" /\ call.name \notin {"schedule", "unschedule"})
            => (fixedPath' = fixedPath /\ bootFlag' = bootFlag
                /\ staging' = staging)]_vars
    /\ [](pc \in HandlerPcs =>
            /\ call.name = IF pc = "u_remove_dir" THEN "unschedule" ELSE "schedule"
            /\ ~ENABLED (\E ok \in BOOLEAN : UnscheduleUnset(ok))
            /\ ~ENABLED (\E d \in ScheduleDigests : ScheduleCall(d, TRUE, TRUE))
            /\ ~ENABLED (\E tail \in Tails :
                   Download(TRUE, TRUE, tail, TRUE, "good", "good", "good")))

\* C14 witness: a Schedule is between its two extractions over an armed
\* update, where an Unschedule running beside it would remove the fixed path
\* under it; none can start
C14_Witness ==
    /\ pc = "extract_firmware" /\ call.name = "schedule"
    /\ IsFull(pre.fixedPath)
    /\ ~ENABLED (\E ok \in BOOLEAN : UnscheduleUnset(ok))

\* the identifier of host h: its BIOS model, "_", and the hash of the
\* project name of its embedded controller or of the placeholder
ExpectedId(h) ==
    <<h.bios_model, "_", IF h.ec = "absent" THEN sha256("none") ELSE sha256(h.ec)>>

\* C15: firmware_id fails exactly when the BIOS model cannot be read, with or
\* without an embedded controller; when it succeeds the identifier is
\* bios_model, "_", sha256(ec_project), the placeholder standing in for a
\* missing controller.  The identifier depends on nothing but the host, so
\* calls on an unchanged host return the same one; schedule and download
\* resolve the same identifier and fail at this step exactly when the
\* FirmwareId method would.
C15_IdentityResolution ==
    /\ Returned("firmware_id") =>
          /\ result.ok <=> call.bios_ok
          /\ result.ok => result.id = ExpectedId(host)
          /\ ~result.ok => result.at = "firmware_id"
    /\ (Returned("schedule") \/ Returned("download")) =>
          (result.at = "firmware_id" <=> ~call.bios_ok)
    /\ (call.name = "schedule" /\ call.bios_ok) =>
          call.firmware_file = tar_xz(ExpectedId(host))
    /\ \A h \in [bios_model : BiosModels, ec : EcProjects] :
          /\ firmware_id(h, TRUE) = [ok |-> TRUE, id |-> ExpectedId(h)]
          /\ ~firmware_id(h, FALSE).ok

\* C15 witness: the FirmwareId method has answered on a host without a
\* readable embedded controller
C15_Witness ==
    /\ Returned("firmware_id") /\ result.ok /\ host.ec = "absent"
    /\ result.id = <<host.bios_model, "_", "hnone">>

\* the local cache held, when the handler was entered, the object the
\* manifest of the call names for file
HadPayload(file) ==
    /\ Names(file)
    /\ pre.cache[Files(BlobOf(call.digest))[file]] # NoBlob

\* the local cache held the manifest of the call when the handler was entered
HadManifest == call.digest \in Digests /\ pre.cache[call.digest] # NoBlob

\* C16: schedule reads the manifest and both payloads from the local cache
\* only.  It never adds an object to the cache; an object that is not there
\* makes it fail with the cache's not-found error; it gets past an
\* extraction, and succeeds, only if the objects were in the cache when it
\* was called, and the cache gets its objects from Download alone.
C16_ScheduleLocalOnly ==
    /\ [](call.name = "schedule" => cache = pre.cache)
    /\ []((call.name = "schedule"
             /\ pc \in {"extract_firmware", "rename", "set_next_boot"})
            => HadManifest /\ HadPayload(updater_file))
    /\ []((call.name = "schedule" /\ pc \in {"rename", "set_next_boot"})
            => HadPayload(call.firmware_file))
    /\ []((Returned("schedule") /\ result.ok)
            => /\ HadManifest
               /\ HadPayload(updater_file)
               /\ HadPayload(call.firmware_file))
    /\ []((Returned("schedule")
             /\ result.at \in {"extract_updater", "extract_firmware"}
             /\ (~HadManifest \/ (Names(SiteFile) /\ ~HadPayload(SiteFile))))
            => \/ result.why \in {"object not found", "cache"}
               \/ HadManifest /\ call.bad = "manifest" /\ result.why = "mismatch")
    /\ [][cache' # cache => (pc = "idle" /\ call'.name = "download")]_vars

\* C16 witness: a schedule found the manifest and the updater payload in the
\* cache, but not the firmware payload, and failed without fetching it
C16_Witness ==
    /\ Returned("schedule") /\ result.at = "extract_firmware"
    /\ result.why = "object not found"
    /\ HadManifest /\ HadPayload(updater_file)
    /\ Names(call.firmware_file) /\ ~HadPayload(call.firmware_file)

\* C17: a schedule that got past the precondition and the unset of the flag
\* removes whatever is at the fixed path before it stages: while it stages,
\* the fixed path is empty, so the update it puts there is the only one.  A
\* schedule that succeeds over an armed update leaves the new contents and
\* nothing of the old; one that fails while staging leaves the old update
\* removed, not restored.
C17_OldUpdateRemovedFirst ==
    /\ pc \in {"tempdir", "extract_updater", "extract_firmware", "rename"}
          => ~Exists(fixedPath)
    /\ (Returned("schedule") /\ result.ok)
          => fixedPath = [state |-> "present",
                          root |-> PayloadTree(updater_file),
                          firmware |-> PayloadTree(call.firmware_file)]
    /\ (Returned("schedule")
            /\ result.at \in {"tempdir", "extract_updater", "extract_firmware",
                               "rename"})
          => ~Exists(fixedPath) /\ ~bootFlag
    /\ (pc = "set_next_boot" \/ (Returned("schedule") /\ result.ok))
          => ~Exists(staging)

\* C17 witness: a schedule has succeeded over the armed update of another
\* release
C17_Witness ==
    /\ Returned("schedule") /\ result.ok
    /\ IsFull(pre.fixedPath) /\ pre.bootFlag
    /\ pre.fixedPath.root # fixedPath.root
    /\ pre.fixedPath.firmware # fixedPath.firmware

\* store holds the manifest of digest d and the two payloads that manifest
\* names for this host, each under its own digest
DownloadComplete(d, store) ==
    /\ d \in Digests
    /\ store[d] \in Manifests /\ Hash(store[d]) = d
    /\ \A file \in {updater_file, HostFirmwareFile} :
          /\ file \in DOMAIN Files(store[d])
          /\ store[Files(store[d])[file]] # NoBlob
          /\ Hash(store[Files(store[d])[file]]) = Files(store[d])[file]

\* C18: when Download succeeds and returns d, the local cache holds the
\* manifest d and both payloads it names for this host; the cache never
\* loses an object; and a Schedule(d) that finds them there (the host being
\* the same) does not fail on a missing manifest, a missing name or a
\* missing object: it either stages exactly those two payloads or fails for
\* another reason (a disk fault, the boot volume, the flag).
C18_DownloadThenSchedule ==
    /\ []((Returned("download") /\ result.ok)
            => result.digest = call.digest /\ DownloadComplete(result.digest, cache))
    /\ [][\A d \in Digests : cache[d] # NoBlob => cache'[d] = cache[d]]_vars
    /\ []((Returned("schedule") /\ DownloadComplete(call.digest, pre.cache))
            => /\ result.why \notin {"not found", "object not found", "parse"}
               /\ result.why = "mismatch" => call.bad # "none"
               /\ result.ok =>
                     /\ fixedPath.root
                          = Tree(pre.cache[Files(pre.cache[call.digest])[updater_file]])
                     /\ fixedPath.firmware
                          = Tree(pre.cache[Files(pre.cache[call.digest])[HostFirmwareFile]]))

\* C18 witness: a Schedule of the digest a successful Download returned has
\* staged the release (the firmware payload "F1" enters the cache only in a
\* Download that succeeds)
C18_Witness ==
    /\ Returned("schedule") /\ result.ok /\ call.digest = "dM1"
    /\ DownloadComplete("dM1", pre.cache)
    /\ fixedPath.firmware = Tree("F1")

\* C19: a schedule that returns the error of the identity resolution, or of
\* the unset of the BootFlag at its start, has removed nothing and created
\* nothing: the fixed path is as it was, an ArmedUpdate included, no
\* temporary directory was created, and the cache is as it was.
C19_EarlyFailureTouchesNothing ==
    /\ (Returned("schedule") /\ result.at \in {"firmware_id", "unset_next_boot"})
          => /\ ~result.ok
             /\ fixedPath = pre.fixedPath
             /\ staging = pre.staging /\ leaked = pre.leaked
             /\ ~call.tmp_created
             /\ cache = pre.cache
    /\ (Returned("schedule") /\ result.at = "firmware_id")
          => bootFlag = pre.bootFlag
    /\ pc = "unset_next_boot"
          => /\ fixedPath = pre.fixedPath /\ staging = pre.staging
             /\ bootFlag = pre.bootFlag /\ ~call.tmp_created

\* C19 witness: the unset failed in a schedule that had found an armed
\* update, which is still at the fixed path
C19_Witness ==
    /\ Returned("schedule") /\ result.at = "unset_next_boot"
    /\ IsFull(pre.fixedPath) /\ pre.bootFlag
    /\ fixedPath = pre.fixedPath

\* C20: Download, whether it succeeds or fails and wherever it fails, leaves
\* the fixed path, every staging directory and the BootFlag as they were;
\* what it leaves behind is new objects in the cache, each hashing to the
\* digest it is stored under, and no stored object changed.
C20_DownloadLeavesStaging ==
    Returned("download") =>
        /\ fixedPath = pre.fixedPath
        /\ staging = pre.staging /\ leaked = pre.leaked
        /\ bootFlag = pre.bootFlag
        /\ \A d \in Digests :
              cache[d] # pre.cache[d] =>
                 pre.cache[d] = NoBlob /\ Hash(cache[d]) = d

\* C20 witness: on a host with an armed update, a Download has succeeded
\* and has added objects to the cache
C20_Witness ==
    /\ Returned("download") /\ result.ok
    /\ Armed /\ cache # pre.cache

==========================================================================
